---- MODULE Spec2Model ----
(***************************************************************************)
(* Model of the uniform_grid crate: a static 3-dimensional uniform grid    *)
(* over a fixed point set (UniformGrid::new) and its nearest-neighbour     *)
(* query cascade (UniformGrid::nearest_neighbor), together with the        *)
(* Offset3 arithmetic and the BoundingBox computation they rest on.        *)
(*                                                                         *)
(* Numbers.  f32 values are modelled as exact rationals n/d extended with  *)
(* +inf, -inf and NaN (the special values the code can produce by dividing *)
(* by a zero cell width or by building a bounding box of no points).       *)
(* Rounding of f32 is not modelled; positions are small integers.          *)
(* i64 values are modelled exactly as hi * 2^63 + lo with hi in {-1,0,1}   *)
(* and lo a small integer, so that i64::MAX and i64::MIN (the results of   *)
(* a saturating float-to-int cast) and the overflow of an addition are     *)
(* represented without leaving the range of the model checker's integers.  *)
(* Option values are sequences: None == <<>>, Some(v) == <<v>>.            *)
(***************************************************************************)
EXTENDS Integers, Sequences, FiniteSets, TLC

\* ------------------------------------------------------------------ bounds
\* Largest coordinate of an input point (coordinates are 0..MaxCoord).
MaxCoord == 1
\* Largest number of input points.
MaxPoints == 2
\* Largest scale passed to UniformGrid::new.
MaxScale == 4
\* Largest number of cells per axis of the grids of SpecIndex.
MaxDim == 2
\* Largest index of an entry of the spiral tables of SpecSpiral.
MaxShell == 3
\* The x coordinate of the points of SpecFar, which lie in one plane away
\* from the origin; their y and z coordinates are below it.
FarCoord == 3

None == <<>>
Some(v) == <<v>>
IsSome(o) == o /= <<>>
Unwrap(o) == o[1]

\* --------------------------------------------------------------- f32 model
Fin(n, d) == [k |-> "fin", n |-> n, d |-> d]
FromInt(i) == Fin(i, 1)
PInf == [k |-> "inf", n |-> 1, d |-> 0]
NInf == [k |-> "inf", n |-> -1, d |-> 0]
NaN == [k |-> "nan", n |-> 0, d |-> 0]

Sign(i) == IF i > 0 THEN 1 ELSE IF i < 0 THEN -1 ELSE 0
Abs(i) == IF i < 0 THEN -i ELSE i
InfOf(s) == IF s < 0 THEN NInf ELSE PInf

\* a - b on f32
FSub(a, b) ==
    IF a.k = "nan" \/ b.k = "nan" THEN NaN
    ELSE IF a.k = "inf" /\ b.k = "inf" THEN (IF a.n = b.n THEN NaN ELSE a)
    ELSE IF a.k = "inf" THEN a
    ELSE IF b.k = "inf" THEN InfOf(-b.n)
    ELSE Fin(a.n * b.d - b.n * a.d, a.d * b.d)

\* a * b on f32
FMul(a, b) ==
    IF a.k = "nan" \/ b.k = "nan" THEN NaN
    ELSE IF a.k = "inf" \/ b.k = "inf"
         THEN (IF Sign(a.n) * Sign(b.n) = 0 THEN NaN ELSE InfOf(Sign(a.n) * Sign(b.n)))
    ELSE Fin(a.n * b.n, a.d * b.d)

\* a / b on f32 (a zero divisor is +0.0: the code only divides by values
\* computed from non-negative operands)
FDiv(a, b) ==
    IF a.k = "nan" \/ b.k = "nan" THEN NaN
    ELSE IF a.k = "inf" /\ b.k = "inf" THEN NaN
    ELSE IF a.k = "inf" THEN InfOf(a.n * (IF b.n < 0 THEN -1 ELSE 1))
    ELSE IF b.k = "inf" THEN Fin(0, 1)
    ELSE IF b.n = 0 THEN (IF a.n = 0 THEN NaN ELSE InfOf(a.n))
    ELSE Fin(a.n * b.d * Sign(b.n), a.d * Abs(b.n))

\* f32::partial_cmp: "lt", "eq", "gt", or "none" when an operand is NaN
FCmp(a, b) ==
    IF a.k = "nan" \/ b.k = "nan" THEN "none"
    ELSE IF a.k = "inf" /\ b.k = "inf"
         THEN (IF a.n = b.n THEN "eq" ELSE IF a.n < b.n THEN "lt" ELSE "gt")
    ELSE IF a.k = "inf" THEN (IF a.n < 0 THEN "lt" ELSE "gt")
    ELSE IF b.k = "inf" THEN (IF b.n < 0 THEN "gt" ELSE "lt")
    ELSE IF a.n * b.d < b.n * a.d THEN "lt"
    ELSE IF a.n * b.d > b.n * a.d THEN "gt"
    ELSE "eq"

FGt(a, b) == FCmp(a, b) = "gt"
FEq(a, b) == FCmp(a, b) = "eq"

\* min_f32: the smaller operand, the first on equality (NaN panics: no NaN
\* reaches it from finite positions, and the model returns NaN there)
min_f32(x, y) ==
    CASE FCmp(x, y) = "lt" -> x
      [] FCmp(x, y) = "gt" -> y
      [] FCmp(x, y) = "eq" -> x
      [] OTHER -> NaN

\* max_f32: the larger operand, the first on equality
max_f32(x, y) ==
    CASE FCmp(x, y) = "lt" -> y
      [] FCmp(x, y) = "gt" -> x
      [] FCmp(x, y) = "eq" -> x
      [] OTHER -> NaN

\* --------------------------------------------------------------- i64 model
\* The value hi * 2^63 + lo.
I64(v) == [hi |-> 0, lo |-> v]
I64_MAX == [hi |-> 1, lo |-> -1]
I64_MIN == [hi |-> -1, lo |-> 0]

\* v is a value of i64: -2^63 <= v < 2^63
InI64(v) ==
    \/ v.hi = 0
    \/ v.hi = 1 /\ v.lo < 0
    \/ v.hi = -1 /\ v.lo >= 0

\* the exact (unbounded) sum
I64Sum(a, b) == [hi |-> a.hi + b.hi, lo |-> a.lo + b.lo]

\* `a + b` overflows i64
I64AddOverflows(a, b) == ~InI64(I64Sum(a, b))

\* `a + b` with two's complement wrapping (the result without overflow
\* checks); equal to the exact sum when it does not overflow
I64WrappingAdd(a, b) ==
    LET s == I64Sum(a, b) IN
    IF InI64(s) THEN s
    ELSE IF s.hi > 0 \/ (s.hi = 0 /\ s.lo > 0) THEN [hi |-> s.hi - 2, lo |-> s.lo]
    ELSE [hi |-> s.hi + 2, lo |-> s.lo]

I64NonNeg(v) == v.hi = 1 \/ (v.hi = 0 /\ v.lo >= 0)

\* (v as usize) < d for a non-negative v and a small d
I64LtUsize(v, d) == v.hi = 0 /\ v.lo < d

\* `f as i64`: truncation toward zero, saturating, NaN to 0
AsI64(f) ==
    IF f.k = "nan" THEN I64(0)
    ELSE IF f.k = "inf" THEN (IF f.n > 0 THEN I64_MAX ELSE I64_MIN)
    ELSE I64(Sign(f.n) * (Abs(f.n) \div f.d))

\* ----------------------------------------------------------------- Offset3
Offset3(x, y, z) == [x |-> x, y |-> y, z |-> z]
Off(x, y, z) == Offset3(I64(x), I64(y), I64(z))

\* into_grid_index1 with the y stride taken from the y width.
into_grid_index1_y_stride(self, grid_size) ==
    IF /\ I64NonNeg(self.x) /\ I64LtUsize(self.x, grid_size[1])
       /\ I64NonNeg(self.y) /\ I64LtUsize(self.y, grid_size[2])
       /\ I64NonNeg(self.z) /\ I64LtUsize(self.z, grid_size[3])
    THEN Some(self.x.lo + self.y.lo * grid_size[2]
              + self.z.lo * grid_size[1] * grid_size[2])
    ELSE None

\* Offset3::into_grid_index1
into_grid_index1(self, grid_size) ==
    IF /\ I64NonNeg(self.x) /\ I64LtUsize(self.x, grid_size[1])
       /\ I64NonNeg(self.y) /\ I64LtUsize(self.y, grid_size[2])
       /\ I64NonNeg(self.z) /\ I64LtUsize(self.z, grid_size[3])
    THEN Some(self.x.lo + self.y.lo * grid_size[1]
              + self.z.lo * grid_size[1] * grid_size[2])
    ELSE None

\* Offset3::from_grid_index1
from_grid_index1(i, grid_width_x, grid_width_y) ==
    Off(i % grid_width_x,
        (i \div grid_width_x) % grid_width_y,
        i \div (grid_width_x * grid_width_y))

\* impl Add for Offset3, without overflow checks
OffsetAdd(self, other) ==
    Offset3(I64WrappingAdd(self.x, other.x),
            I64WrappingAdd(self.y, other.y),
            I64WrappingAdd(self.z, other.z))

\* impl Add for Offset3: some component overflows
OffsetAddOverflows(self, other) ==
    \/ I64AddOverflows(self.x, other.x)
    \/ I64AddOverflows(self.y, other.y)
    \/ I64AddOverflows(self.z, other.z)

\* ------------------------------------------------------------- BoundingBox
RECURSIVE BBFold(_, _, _)
\* The loop of BoundingBox::new over points[i..]: acc holds the running
\* x_min, y_min, z_min, x_max, y_max, z_max.
BBFold(points, i, acc) ==
    IF i > Len(points) THEN acc
    ELSE LET p == points[i] IN
         BBFold(points, i + 1,
                [x_min |-> min_f32(FromInt(p[1]), acc.x_min),
                 y_min |-> min_f32(FromInt(p[2]), acc.y_min),
                 z_min |-> min_f32(FromInt(p[3]), acc.z_min),
                 x_max |-> max_f32(FromInt(p[1]), acc.x_max),
                 y_max |-> max_f32(FromInt(p[2]), acc.y_max),
                 z_max |-> max_f32(FromInt(p[3]), acc.z_max)])

\* BoundingBox::new
BoundingBoxNew(points) ==
    LET m == BBFold(points, 1,
                    [x_min |-> PInf, y_min |-> PInf, z_min |-> PInf,
                     x_max |-> NInf, y_max |-> NInf, z_max |-> NInf])
    IN [min |-> <<m.x_min, m.y_min, m.z_min>>,
        x_width |-> FSub(m.x_max, m.x_min),
        y_width |-> FSub(m.y_max, m.y_min),
        z_width |-> FSub(m.z_max, m.z_min)]

\* ------------------------------------------------------ free grid functions
\* point_into_offset (uniform_grid.rs)
point_into_offset(point, min_point, cell_width) ==
    LET relative_pos == <<FSub(FromInt(point[1]), min_point[1]),
                          FSub(FromInt(point[2]), min_point[2]),
                          FSub(FromInt(point[3]), min_point[3])>>
    IN Offset3(AsI64(FDiv(relative_pos[1], cell_width)),
               AsI64(FDiv(relative_pos[2], cell_width)),
               AsI64(FDiv(relative_pos[3], cell_width)))

\* point_into_index1
point_into_index1(point, min_point, cell_width, grid_size) ==
    into_grid_index1(point_into_offset(point, min_point, cell_width), grid_size)

\* dist2: squared Euclidean distance (exact on integer positions)
dist2(p, q) ==
    LET x == q[1] - p[1]
        y == q[2] - p[2]
        z == q[3] - p[3]
    IN x * x + y * y + z * z

\* The SearchResult a (position, point index) pair maps to in `nearest`.
SearchResult(query_point, e) ==
    [position |-> e[1],
     point_object_index |-> e[2],
     distance2_to_query |-> dist2(query_point, e[1])]

RECURSIVE MinBy(_, _, _, _)
\* Iterator::min_by over entries[i..]: the first of the minimal elements.
MinBy(query_point, entries, i, best) ==
    IF i > Len(entries) THEN best
    ELSE LET sr == SearchResult(query_point, entries[i]) IN
         MinBy(query_point, entries, i + 1,
               IF sr.distance2_to_query < best.distance2_to_query THEN sr ELSE best)

\* nearest: the entry of `points` closest to the query, None when empty
nearest(query_point, points) ==
    IF Len(points) = 0 THEN None
    ELSE Some(MinBy(query_point, points, 2, SearchResult(query_point, points[1])))

\* neighbor_offsets: the 26 offsets of {-1,0,1}^3 without the zero offset,
\* x running fastest, then y, then z
neighbor_offsets ==
    LET all == [i \in 1..27 |->
                   Off(((i - 1) % 3) - 1, (((i - 1) \div 3) % 3) - 1, ((i - 1) \div 9) - 1)]
    IN SelectSeq(all, LAMBDA o : o /= Off(0, 0, 0))

\* (max_cell_count as f32).cbrt() as usize
CubeGridWidth(max_cell_count) ==
    CHOOSE r \in 0..max_cell_count :
        r * r * r <= max_cell_count /\ (r + 1) * (r + 1) * (r + 1) > max_cell_count

\* ------------------------------------------------------------ spiral table
\* A SpiralCell of the table: a representative offset and the index of the
\* last table entry to scan once a point is found at this entry.
SpiralCell(offset, stop_cell_index1) ==
    [offset |-> offset, stop_cell_index1 |-> stop_cell_index1]

\* -x on a small i64
I64Neg(v) == [hi |-> -v.hi, lo |-> -v.lo]

\* spiral_cells::offset_variations: the symmetric variants of a representative
\* offset, i.e. every permutation of its components under every choice of
\* signs (repetitions change no result of a scan).
offset_variations(offset) ==
    LET c == <<offset.x, offset.y, offset.z>>
        perms == << <<1, 2, 3>>, <<1, 3, 2>>, <<2, 1, 3>>,
                    <<2, 3, 1>>, <<3, 1, 2>>, <<3, 2, 1>> >>
        sg(v, neg) == IF neg = 1 THEN I64Neg(v) ELSE v
    IN [i \in 1..48 |->
          LET pm == perms[((i - 1) \div 8) + 1]
              b == (i - 1) % 8
          IN Offset3(sg(c[pm[1]], b % 2),
                     sg(c[pm[2]], (b \div 2) % 2),
                     sg(c[pm[3]], (b \div 4) % 2))]

\* --------------------------------------------------------------- the state
VARIABLES
    pc,                   \* "start", "built", or "panicked" (UniformGrid::new aborted)
    args,                 \* Some of the arguments of UniformGrid::new, None once consumed
    point_objs,           \* positions of the indexed points, in input order
    cell_point_counts,    \* flat cell index -> number of points in the cell
    cell_point_positions, \* flat cell index -> sequence of <<position, point index>>
    min_position,         \* minimum corner of the grid (three f32)
    cell_width,           \* side of a cell (f32)
    grid_dimensions,      \* <<cells in x, cells in y, cells in z>>
    spiral_cells,         \* the spiral table
    call                  \* None, or Some record of the last nearest_neighbor call

vars == <<pc, args, point_objs, cell_point_counts, cell_point_positions,
          min_position, cell_width, grid_dimensions, spiral_cells, call>>

grid == <<point_objs, cell_point_counts, cell_point_positions,
          min_position, cell_width, grid_dimensions, spiral_cells>>

\* ---------------------------------------------------------- UniformGrid::new
\* NewCellWidth without the inflation by 1.01.
NewCellWidthExact(cube_bb_width, cube_grid_width) ==
    FDiv(cube_bb_width, FromInt(cube_grid_width))

\* cell_width as computed by UniformGrid::new
NewCellWidth(cube_bb_width, cube_grid_width) ==
    FDiv(FMul(cube_bb_width, Fin(101, 100)), FromInt(cube_grid_width))

\* The cell index point_into_index1 gives each input point (both passes of
\* UniformGrid::new compute it, with the same arguments).
PointCellIndexes(points, min_point, cw, dims) ==
    [j \in 1..Len(points) |-> point_into_index1(points[j], min_point, cw, dims)]

\* First pass of UniformGrid::new: the number of points per cell.
CountPass(points, cell_indexes, cell_count) ==
    [i \in 0..(cell_count - 1) |->
        Cardinality({j \in 1..Len(points) : cell_indexes[j] = Some(i)})]

\* BucketPass pushing the 1-based position of the point for its index.
BucketPassOneBased(points, cell_indexes, cell_count) ==
    LET entries == [j \in 1..Len(points) |-> <<points[j], j>>] IN
    [i \in 0..(cell_count - 1) |->
        SelectSeq(entries, LAMBDA e : cell_indexes[e[2]] = Some(i))]

\* Second pass of UniformGrid::new: each (position, point_index) pair pushed
\* to its cell, in input order.
BucketPass(points, cell_indexes, cell_count) ==
    LET entries == [j \in 1..Len(points) |-> <<points[j], j - 1>>] IN
    [i \in 0..(cell_count - 1) |->
        SelectSeq(entries, LAMBDA e : cell_indexes[e[2] + 1] = Some(i))]

\* Some point_into_index1(..).unwrap() of UniformGrid::new panics.
NewPanics(cell_indexes) ==
    \E j \in DOMAIN cell_indexes : cell_indexes[j] = None

\* UniformGrid::new(points, scale, spiral_cells)
New ==
    /\ pc = "start"
    /\ LET a == Unwrap(args)
           points == a.points
           max_cell_count == Len(points) * a.scale
           bb == BoundingBoxNew(points)
           cube_bb_width == max_f32(bb.x_width, max_f32(bb.y_width, bb.z_width))
           cube_grid_width == CubeGridWidth(max_cell_count)
           dims == <<cube_grid_width, cube_grid_width, cube_grid_width>>
           cell_count == dims[1] * dims[2] * dims[3]
       IN \E cw \in {NewCellWidth(cube_bb_width, cube_grid_width)} :
          \E cell_indexes \in {PointCellIndexes(points, bb.min, cw, dims)} :
             IF NewPanics(cell_indexes)
             THEN /\ pc' = "panicked"
                  /\ UNCHANGED <<args, grid>>
             ELSE /\ pc' = "built"
                  /\ args' = None
                  /\ point_objs' = points
                  /\ cell_point_counts' = CountPass(points, cell_indexes, cell_count)
                  /\ cell_point_positions' = BucketPass(points, cell_indexes, cell_count)
                  /\ min_position' = bb.min
                  /\ cell_width' = cw
                  /\ grid_dimensions' = dims
                  /\ spiral_cells' = a.spiral_cells
    /\ UNCHANGED call

\* ------------------------------------------------- UniformGrid: the queries
\* `v as f32` for a component of the offset of an existing cell (0 <= v < 2^63
\* and small, so hi = 0), and for that component plus one
I64AsF32(v) == FromInt(v.lo)

\* UniformGrid::point_into_offset
self_point_into_offset(point) == point_into_offset(point, min_position, cell_width)

\* UniformGrid::offset_into_index1
offset_into_index1(offset_from_origin) ==
    into_grid_index1(offset_from_origin, grid_dimensions)

\* UniformGrid::nearest_wall_dist
nearest_wall_dist(point, cell_offset) ==
    LET x1 == I64WrappingAdd(cell_offset.x, I64(1))
        y1 == I64WrappingAdd(cell_offset.y, I64(1))
        z1 == I64WrappingAdd(cell_offset.z, I64(1))
        dist_to_x_wall ==
            min_f32(FSub(FromInt(point[1]), FMul(I64AsF32(cell_offset.x), cell_width)),
                    FSub(FMul(I64AsF32(x1), cell_width), FromInt(point[1])))
        dist_to_y_wall ==
            min_f32(FSub(FromInt(point[2]), FMul(I64AsF32(cell_offset.y), cell_width)),
                    FSub(FMul(I64AsF32(y1), cell_width), FromInt(point[2])))
        dist_to_z_wall ==
            min_f32(FSub(FromInt(point[3]), FMul(I64AsF32(cell_offset.z), cell_width)),
                    FSub(FMul(I64AsF32(z1), cell_width), FromInt(point[2])))
    IN min_f32(dist_to_x_wall, min_f32(dist_to_y_wall, dist_to_z_wall))

RECURSIVE FlatCells(_, _, _)
\* The points of the existing cells at center_cell_offset + cell_offsets[i..],
\* in the order the iterator of nearest_in_cell_offsets yields them.
FlatCells(center_cell_offset, cell_offsets, i) ==
    IF i > Len(cell_offsets) THEN <<>>
    ELSE LET idx == offset_into_index1(OffsetAdd(center_cell_offset, cell_offsets[i])) IN
         (IF IsSome(idx) THEN cell_point_positions[Unwrap(idx)] ELSE <<>>)
         \o FlatCells(center_cell_offset, cell_offsets, i + 1)

\* UniformGrid::nearest_in_cell_offsets
nearest_in_cell_offsets(query_point, center_cell_offset, cell_offsets) ==
    nearest(query_point, FlatCells(center_cell_offset, cell_offsets, 1))

\* An addition center_cell_offset + o of nearest_in_cell_offsets overflows.
CellOffsetsOverflow(center_cell_offset, cell_offsets) ==
    \E i \in 1..Len(cell_offsets) : OffsetAddOverflows(center_cell_offset, cell_offsets[i])

\* NearerThanWall with >= for >.
NearerThanWallOrEqual(dist_to_wall, nearest_in_query_cell) ==
    FCmp(FMul(dist_to_wall, dist_to_wall),
         FromInt(nearest_in_query_cell.distance2_to_query)) \in {"gt", "eq"}

\* The test of nearest_neighbor_in_query_cell that ends the search in the
\* query cell: dist_to_wall * dist_to_wall > distance2_to_query.
NearerThanWall(dist_to_wall, nearest_in_query_cell) ==
    FGt(FMul(dist_to_wall, dist_to_wall),
        FromInt(nearest_in_query_cell.distance2_to_query))

\* The filter of nearest_neighbor_in_query_cell: the index of the query cell
\* when it exists and holds a point.
QueryCellIndex(query_cell_offset) ==
    LET idx == offset_into_index1(query_cell_offset) IN
    IF IsSome(idx) /\ cell_point_counts[Unwrap(idx)] > 0 THEN idx ELSE None

\* PickNearer with the comparison reversed.
PickNearerReversed(nearest_in_query_cell, maybe_nearest_in_neighbor_cells) ==
    IF IsSome(maybe_nearest_in_neighbor_cells)
    THEN (IF nearest_in_query_cell.distance2_to_query
               >= Unwrap(maybe_nearest_in_neighbor_cells).distance2_to_query
          THEN nearest_in_query_cell
          ELSE Unwrap(maybe_nearest_in_neighbor_cells))
    ELSE nearest_in_query_cell

\* The choice between the candidate of the query cell and that of the
\* neighbouring cells.
PickNearer(nearest_in_query_cell, maybe_nearest_in_neighbor_cells) ==
    IF IsSome(maybe_nearest_in_neighbor_cells)
    THEN (IF nearest_in_query_cell.distance2_to_query
               <= Unwrap(maybe_nearest_in_neighbor_cells).distance2_to_query
          THEN nearest_in_query_cell
          ELSE Unwrap(maybe_nearest_in_neighbor_cells))
    ELSE nearest_in_query_cell

\* QueryCellSearch with the scan of the 26 neighbouring cells made also when
\* the query cell is missing or empty.
QueryCellSearchNeighborsOnMiss(query_point, query_cell_offset) ==
    LET idx == QueryCellIndex(query_cell_offset) IN
    IF ~IsSome(idx)
    THEN [res |-> nearest_in_cell_offsets(query_point, query_cell_offset,
                                          neighbor_offsets),
          neighbors_scanned |-> TRUE]
    ELSE LET Decide(nearest_in_query_cell) ==
                 IF NearerThanWall(nearest_wall_dist(nearest_in_query_cell.position,
                                                     query_cell_offset),
                                   nearest_in_query_cell)
                 THEN [res |-> Some(nearest_in_query_cell), neighbors_scanned |-> FALSE]
                 ELSE [res |-> Some(PickNearer(nearest_in_query_cell,
                                        nearest_in_cell_offsets(query_point,
                                            query_cell_offset, neighbor_offsets))),
                       neighbors_scanned |-> TRUE]
         IN Decide(Unwrap(nearest(query_point, cell_point_positions[Unwrap(idx)])))

\* The body of UniformGrid::nearest_neighbor_in_query_cell: its result, and
\* whether it reached the scan of the 26 neighbouring cells.
QueryCellSearch(query_point, query_cell_offset) ==
    LET idx == QueryCellIndex(query_cell_offset) IN
    IF ~IsSome(idx) THEN [res |-> None, neighbors_scanned |-> FALSE]
    ELSE LET Decide(nearest_in_query_cell) ==
                 IF NearerThanWall(nearest_wall_dist(nearest_in_query_cell.position,
                                                     query_cell_offset),
                                   nearest_in_query_cell)
                 THEN [res |-> Some(nearest_in_query_cell), neighbors_scanned |-> FALSE]
                 ELSE [res |-> Some(PickNearer(nearest_in_query_cell,
                                        nearest_in_cell_offsets(query_point,
                                            query_cell_offset, neighbor_offsets))),
                       neighbors_scanned |-> TRUE]
         IN Decide(Unwrap(nearest(query_point, cell_point_positions[Unwrap(idx)])))

\* UniformGrid::nearest_neighbor_in_query_cell
nearest_neighbor_in_query_cell(query_point, query_cell_offset) ==
    QueryCellSearch(query_point, query_cell_offset).res

RECURSIVE SpiralLoopStopBefore(_, _, _, _, _, _)
\* SpiralLoop with the loop left at the stop cell instead of after it.
SpiralLoopStopBefore(query_point, query_cell_offset, i, stop, best, scanned) ==
    IF i >= Len(spiral_cells) THEN [res |-> best, scanned |-> scanned]
    ELSE IF IsSome(stop) /\ i >= Unwrap(stop) THEN [res |-> best, scanned |-> scanned]
    ELSE LET spiral_cell == spiral_cells[i + 1]
             maybe_nearest_in_spiral_cell ==
                 nearest_in_cell_offsets(query_point, query_cell_offset,
                                         offset_variations(spiral_cell.offset))
             found == IsSome(maybe_nearest_in_spiral_cell)
             stop2 == IF found /\ ~IsSome(stop)
                      THEN Some(spiral_cell.stop_cell_index1) ELSE stop
             is_new_nearest ==
                 found /\ (~IsSome(best)
                           \/ Unwrap(maybe_nearest_in_spiral_cell).distance2_to_query
                                < Unwrap(best).distance2_to_query)
             best2 == IF is_new_nearest THEN maybe_nearest_in_spiral_cell ELSE best
         IN SpiralLoopStopBefore(query_point, query_cell_offset, i + 1, stop2, best2,
                                 Append(scanned, i))

RECURSIVE SpiralLoop(_, _, _, _, _, _)
\* The loop of nearest_neighbor_spiral_search from table index i (0-based) on:
\* stop is maybe_stop_cell_index1, best is maybe_nearest_so_far, scanned the
\* table indices whose cells were scanned so far.
SpiralLoop(query_point, query_cell_offset, i, stop, best, scanned) ==
    IF i >= Len(spiral_cells) THEN [res |-> best, scanned |-> scanned]
    ELSE IF IsSome(stop) /\ i > Unwrap(stop) THEN [res |-> best, scanned |-> scanned]
    ELSE LET spiral_cell == spiral_cells[i + 1]
             maybe_nearest_in_spiral_cell ==
                 nearest_in_cell_offsets(query_point, query_cell_offset,
                                         offset_variations(spiral_cell.offset))
             found == IsSome(maybe_nearest_in_spiral_cell)
             stop2 == IF found /\ ~IsSome(stop)
                      THEN Some(spiral_cell.stop_cell_index1) ELSE stop
             is_new_nearest ==
                 found /\ (~IsSome(best)
                           \/ Unwrap(maybe_nearest_in_spiral_cell).distance2_to_query
                                < Unwrap(best).distance2_to_query)
             best2 == IF is_new_nearest THEN maybe_nearest_in_spiral_cell ELSE best
         IN SpiralLoop(query_point, query_cell_offset, i + 1, stop2, best2,
                       Append(scanned, i))

\* UniformGrid::nearest_neighbor_spiral_search, with the indices it scanned
SpiralSearch(query_point, query_cell_offset) ==
    SpiralLoop(query_point, query_cell_offset, 1, None, None, <<>>)

\* UniformGrid::nearest_neighbor_spiral_search
nearest_neighbor_spiral_search(query_point, query_cell_offset) ==
    SpiralSearch(query_point, query_cell_offset).res

RECURSIVE Flatten(_, _)
\* self.cell_point_positions.iter().flatten(), from cell i on
Flatten(cells, i) ==
    IF i \notin DOMAIN cells THEN <<>> ELSE cells[i] \o Flatten(cells, i + 1)

\* UniformGrid::nearest_neighbor_brute_force
nearest_neighbor_brute_force(query_point) ==
    nearest(query_point, Flatten(cell_point_positions, 0))

\* An Offset3 addition of the cascade overflows i64: one of the neighbour
\* scan, or one made for a table entry the spiral search scans.
CascadeOverflows(query_cell_offset, in_cell, spiral) ==
    \/ /\ in_cell.neighbors_scanned
       /\ CellOffsetsOverflow(query_cell_offset, neighbor_offsets)
    \/ /\ ~IsSome(in_cell.res)
       /\ \E i \in 1..Len(spiral.scanned) :
            CellOffsetsOverflow(query_cell_offset,
                                offset_variations(spiral_cells[spiral.scanned[i] + 1].offset))

\* The record of a call of nearest_neighbor that aborted on an overflow.
Panicked(query_point) ==
    [query |-> query_point, outcome |-> "panicked", result |-> None,
     stage |-> "none", neighbors_scanned |-> FALSE, shells_scanned |-> <<>>]

\* The record of a call of nearest_neighbor that returned: the query, the
\* result (None, or Some of the point index, its position and the squared
\* distance), the stage that produced it, and what the cascade scanned.
Returned(query_point, in_cell, spiral, sr) ==
    [query |-> query_point,
     outcome |-> "returned",
     result |-> IF IsSome(sr)
                THEN Some([point_object_index |-> Unwrap(sr).point_object_index,
                           position |-> point_objs[Unwrap(sr).point_object_index + 1],
                           distance2_to_query |-> Unwrap(sr).distance2_to_query])
                ELSE None,
     stage |-> IF IsSome(in_cell.res) THEN "query_cell"
               ELSE IF IsSome(spiral.res) THEN "spiral"
               ELSE "brute_force",
     neighbors_scanned |-> in_cell.neighbors_scanned,
     shells_scanned |-> spiral.scanned]

\* The spiral search as nearest_neighbor runs it: only when the query cell
\* gave nothing (or_else).
SpiralOrElse(query_point, query_cell_offset, in_cell) ==
    IF IsSome(in_cell.res) THEN [res |-> None, scanned |-> <<>>]
    ELSE SpiralSearch(query_point, query_cell_offset)

\* The outcomes of UniformGrid::nearest_neighbor(query_point): the record of
\* the call when it returns and, when an Offset3 addition overflows, the
\* record of the abort.  Offset3's `+` is i64 addition: on overflow it aborts
\* in a build with overflow checks and wraps in one without.
NearestNeighborOutcomes(query_point) ==
    LET Outcomes(query_cell_offset, in_cell, spiral) ==
            {Returned(query_point, in_cell, spiral,
                      IF IsSome(in_cell.res) THEN in_cell.res
                      ELSE IF IsSome(spiral.res) THEN spiral.res
                      ELSE nearest_neighbor_brute_force(query_point))}
            \cup (IF CascadeOverflows(query_cell_offset, in_cell, spiral)
                  THEN {Panicked(query_point)} ELSE {})
        Stage2(query_cell_offset, in_cell) ==
            Outcomes(query_cell_offset, in_cell,
                     SpiralOrElse(query_point, query_cell_offset, in_cell))
        Stage1(query_cell_offset) ==
            Stage2(query_cell_offset, QueryCellSearch(query_point, query_cell_offset))
    IN Stage1(self_point_into_offset(query_point))

\* UniformGrid::nearest_neighbor(query_point)
NearestNeighbor(query_point) ==
    /\ pc = "built"
    /\ call = None
    /\ \E c \in NearestNeighborOutcomes(query_point) : call' = Some(c)
    /\ UNCHANGED <<pc, args, grid>>

\* The caller takes the result; the index is unchanged and can be queried again.
Return ==
    /\ call /= None
    /\ call' = None
    /\ UNCHANGED <<pc, args, grid>>

\* --------------------------------------------------------- specifications
Coords == 0..MaxCoord
Positions == Coords \X Coords \X Coords
PointSeqs == UNION {[1..n -> Positions] : n \in 0..MaxPoints}
\* The scales of the model: the invalid 0, the least 1, and the largest.
Scales == {0, 1, MaxScale}
QueryCoords == (-1)..(MaxCoord + 1)
Queries == QueryCoords \X QueryCoords \X QueryCoords

\* The spiral tables of the model: none, and the table of the first two shells.
SpiralTables ==
    { <<>>,
      <<SpiralCell(Off(0, 0, 0), 0), SpiralCell(Off(1, 0, 0), 1)>> }

\* No index has been built.
NoGrid ==
    /\ point_objs = <<>>
    /\ cell_point_counts = <<>>
    /\ cell_point_positions = <<>>
    /\ min_position = <<NaN, NaN, NaN>>
    /\ cell_width = NaN
    /\ grid_dimensions = <<0, 0, 0>>
    /\ spiral_cells = <<>>

\* The state before UniformGrid::new is called with arguments drawn from
\* the given sets.
Start(pointSeqs, scales, tables) ==
    /\ pc = "start"
    /\ args \in {Some([points |-> p, scale |-> s, spiral_cells |-> t]) :
                   p \in pointSeqs, s \in scales, t \in tables}
    /\ NoGrid
    /\ call = None

\* Spec: an index is built from any input and queried at any position.
Init == Start(PointSeqs, Scales, SpiralTables)

Next ==
    \/ New
    \/ \E q \in Queries : NearestNeighbor(q)
    \/ Return

Spec == Init /\ [][Next]_vars

\* SpecNew: construction alone.
InitNew == Start(PointSeqs, Scales, {<<>>})

NextNew == New

SpecNew == InitNew /\ [][NextNew]_vars

\* SpecProbe: an index is built and queried at the position of an indexed
\* point, or one unit along x from the first indexed point.
ProbeQueries ==
    {point_objs[i] : i \in 1..Len(point_objs)}
    \cup {<<point_objs[i][1] + 1, point_objs[i][2], point_objs[i][3]>> :
             i \in 1..(IF Len(point_objs) > 0 THEN 1 ELSE 0)}

InitProbe == Start(PointSeqs, Scales, {<<>>})

NextProbe ==
    \/ New
    \/ \E q \in ProbeQueries : NearestNeighbor(q)
    \/ Return

SpecProbe == InitProbe /\ [][NextProbe]_vars

\* SpecFar: the indexed points lie in the plane x = FarCoord, the spiral table
\* is empty (so only the query cell stage and the brute force run), and the
\* queries lie in and beside that plane.
FarPositions == {FarCoord} \X (0..(FarCoord - 1)) \X (0..(FarCoord - 1))
FarPointSeqs == UNION {[1..n -> FarPositions] : n \in 0..MaxPoints}
FarQueries ==
    ((FarCoord - 1)..(FarCoord + 1)) \X (0..(FarCoord - 1)) \X (0..(FarCoord - 1))

InitFar == Start(FarPointSeqs, Scales, {<<>>})

NextFar ==
    \/ New
    \/ \E q \in FarQueries : NearestNeighbor(q)
    \/ Return

SpecFar == InitFar /\ [][NextFar]_vars

\* SpecIndex: the conversions between Offset3 and flat index, applied to
\* grid sizes and offsets (or flat indices) drawn from bounded sets; the
\* components of an offset include one step outside the grid on either side
\* and the two saturated values.
Dims == 0..MaxDim
GridSizes == Dims \X Dims \X Dims
OffsetComponents == {I64(v) : v \in (-1)..MaxDim} \cup {I64_MIN, I64_MAX}
IndexOffsets ==
    {Offset3(x, y, z) : x \in OffsetComponents, y \in OffsetComponents,
                        z \in OffsetComponents}

InitIndex ==
    /\ pc = "index"
    /\ args \in {Some([grid_size |-> g, offset |-> o]) :
                    g \in GridSizes, o \in IndexOffsets}
             \cup {Some([grid_size |-> g, i |-> i]) :
                    g \in GridSizes, i \in 0..(MaxDim * MaxDim * MaxDim - 1)}
    /\ NoGrid
    /\ call = None

\* offset.into_grid_index1(grid_size)
IntoGridIndex1 ==
    /\ pc = "index"
    /\ call = None
    /\ "offset" \in DOMAIN Unwrap(args)
    /\ call' = Some([index1 |->
                       into_grid_index1(Unwrap(args).offset, Unwrap(args).grid_size)])
    /\ UNCHANGED <<pc, args, grid>>

\* Offset3::from_grid_index1(i, grid_size.0, grid_size.1) for a flat index of
\* the grid, and the conversion of the result back
FromGridIndex1 ==
    /\ pc = "index"
    /\ call = None
    /\ "i" \in DOMAIN Unwrap(args)
    /\ LET g == Unwrap(args).grid_size IN
       /\ Unwrap(args).i < g[1] * g[2] * g[3]
       /\ \E o \in {from_grid_index1(Unwrap(args).i, g[1], g[2])} :
             call' = Some([offset |-> o, index1 |-> into_grid_index1(o, g)])
    /\ UNCHANGED <<pc, args, grid>>

NextIndex ==
    \/ IntoGridIndex1
    \/ FromGridIndex1

SpecIndex == InitIndex /\ [][NextIndex]_vars

\* SpecSpiral: an index of several cells per axis is built from a point at
\* the origin and a point at a corner of the cube of side MaxCoord, with a
\* spiral table of the first shells, and queried at any position; the queries
\* in an empty cell or outside the grid reach the spiral search.  A table is
\* empty, has the entry 0 alone, or has the entries 0..MaxShell, entry i with
\* stop index i + k for one k per table (so a stop index may lie past the end
\* of the table).
ShellOffsets ==
    <<Off(0, 0, 0), Off(1, 0, 0), Off(1, 1, 0), Off(1, 1, 1), Off(2, 0, 0), Off(2, 1, 0)>>
ShellTable(len, k) == [i \in 1..len |-> SpiralCell(ShellOffsets[i], (i - 1) + k)]
ShellTables ==
    {<<>>, ShellTable(1, 0)} \cup {ShellTable(MaxShell + 1, k) : k \in 0..MaxShell}
Corners == {0, MaxCoord} \X {0, MaxCoord} \X {0, MaxCoord}
CornerPointSeqs == {<< <<0, 0, 0>>, c >> : c \in Corners}

InitSpiral == Start(CornerPointSeqs, {MaxScale}, ShellTables)

NextSpiral ==
    \/ New
    \/ \E q \in Queries : NearestNeighbor(q)
    \/ Return

SpecSpiral == InitSpiral /\ [][NextSpiral]_vars

\* ------------------------------------------------------------------ claims
\* The least squared distance from q to an indexed point: the result of a
\* full linear scan.
MinDist2(q) ==
    CHOOSE d \in {dist2(q, point_objs[i]) : i \in 1..Len(point_objs)} :
        \A i \in 1..Len(point_objs) : d <= dist2(q, point_objs[i])

\* A call of nearest_neighbor is on record.
Called == pc = "built" /\ call /= None

\* C1: on a non-empty index every call of nearest_neighbor returns a point
\* whose squared distance to the query is the least squared distance over all
\* indexed points, whichever stage produced it.  (Violated: see
\* C1_NearestMatchesLinearScan's trace, where the query cell stage ends the
\* search on a candidate that is not the nearest point.)
C1_NearestMatchesLinearScan ==
    (Called /\ Len(point_objs) > 0) =>
        LET c == Unwrap(call) IN
        /\ c.outcome = "returned"
        /\ IsSome(c.result)
        /\ Unwrap(c.result).distance2_to_query = MinDist2(c.query)

\* C2: nearest_neighbor returns None exactly when the index holds no point,
\* and returns (never aborts) on every query.  (Violated: with a zero cell
\* width the query offset saturates and an Offset3 addition of the spiral
\* search overflows.)
C2_NoneIffEmpty ==
    Called =>
        LET c == Unwrap(call) IN
        /\ c.outcome = "returned"
        /\ (c.result = None <=> Len(point_objs) = 0)

\* The query of the recorded call is the position of an indexed point.
SelfQuery ==
    Called /\ \E i \in 1..Len(point_objs) : point_objs[i] = Unwrap(call).query

\* C3: a query at the exact position of an indexed point returns a point at
\* that position, with squared distance 0.
C3_SelfQuery ==
    SelfQuery =>
        LET c == Unwrap(call) IN
        /\ c.outcome = "returned"
        /\ IsSome(c.result)
        /\ Unwrap(c.result).distance2_to_query = 0
        /\ Unwrap(c.result).position = c.query

\* A self-query on a grid of several cells that went on to scan the
\* neighbouring cells, one of which holds another point.
C3_Witness ==
    /\ SelfQuery
    /\ Unwrap(call).neighbors_scanned
    /\ grid_dimensions[1] >= 2
    /\ \E i \in 1..Len(point_objs) : point_objs[i] /= Unwrap(call).query
    /\ Unwrap(Unwrap(call).result).distance2_to_query = 0

\* The entries of all cells, as a set of <<cell index, position in the
\* cell's sequence>> pairs.
BucketSlots ==
    {<<i, k>> \in (DOMAIN cell_point_positions) \X (1..Len(point_objs)) :
        k <= Len(cell_point_positions[i])}

\* C4: after construction the cells partition the input: the cells are
\* 0..dx*dy*dz-1, every entry is the (position, index) pair of an input point,
\* every input point index is in exactly one entry, in the cell its position
\* maps to, and each stored count is the length of its cell's sequence.
C4_BucketsPartitionInput ==
    pc = "built" =>
        /\ DOMAIN cell_point_positions
             = 0..(grid_dimensions[1] * grid_dimensions[2] * grid_dimensions[3] - 1)
        /\ DOMAIN cell_point_counts = DOMAIN cell_point_positions
        /\ \A i \in DOMAIN cell_point_positions :
              /\ cell_point_counts[i] = Len(cell_point_positions[i])
              /\ Len(cell_point_positions[i]) <= Len(point_objs)
        /\ \A s \in BucketSlots :
              LET e == cell_point_positions[s[1]][s[2]] IN
              /\ e[2] \in 0..(Len(point_objs) - 1)
              /\ e[1] = point_objs[e[2] + 1]
              /\ point_into_index1(e[1], min_position, cell_width, grid_dimensions)
                   = Some(s[1])
        /\ \A j \in 1..Len(point_objs) :
              Cardinality({s \in BucketSlots :
                             cell_point_positions[s[1]][s[2]][2] = j - 1}) = 1

\* An index of several cells with input points in two different cells.
C4_Witness ==
    /\ pc = "built"
    /\ \E i, j \in DOMAIN cell_point_positions :
          i /= j /\ cell_point_counts[i] > 0 /\ cell_point_counts[j] > 0

\* The offset lies in the grid on every axis.
OffsetInGrid(o, dims) ==
    /\ o.x.hi = 0 /\ 0 <= o.x.lo /\ o.x.lo < dims[1]
    /\ o.y.hi = 0 /\ 0 <= o.y.lo /\ o.y.lo < dims[2]
    /\ o.z.hi = 0 /\ 0 <= o.z.lo /\ o.z.lo < dims[3]

\* cells_per_axis for the arguments of UniformGrid::new
CellsPerAxis(a) == CubeGridWidth(Len(a.points) * a.scale)

\* C5: with at least one cell per axis every input point maps to an offset
\* inside the grid, so construction does not abort and keeps every point:
\* before the call the mapping of each input point (with the bounding box
\* minimum and the inflated cell width) is inside the grid, construction aborts
\* only with no cell per axis, and in the index built each point's offset is
\* inside the grid.
C5_InputPointsInsideGrid ==
    /\ (pc = "start" /\ CellsPerAxis(Unwrap(args)) >= 1) =>
          LET a == Unwrap(args)
              bb == BoundingBoxNew(a.points)
              n == CellsPerAxis(a)
              cw == NewCellWidth(max_f32(bb.x_width, max_f32(bb.y_width, bb.z_width)), n)
          IN \A j \in 1..Len(a.points) :
                OffsetInGrid(point_into_offset(a.points[j], bb.min, cw), <<n, n, n>>)
    /\ pc = "panicked" => CellsPerAxis(Unwrap(args)) = 0
    /\ pc = "built" =>
          \A j \in 1..Len(point_objs) :
             OffsetInGrid(self_point_into_offset(point_objs[j]), grid_dimensions)

\* An index of several cells per axis with a point on a maximum face of a
\* bounding box of positive width, bucketed in the last cell of that axis.
C5_Witness ==
    /\ pc = "built"
    /\ grid_dimensions[1] >= 2
    /\ \E j, k \in 1..Len(point_objs) :
          /\ point_objs[j][1] > point_objs[k][1]
          /\ \A m \in 1..Len(point_objs) : point_objs[m][1] <= point_objs[j][1]
          /\ self_point_into_offset(point_objs[j]).x = I64(grid_dimensions[1] - 1)

\* C6: on an index of exactly one point p every query q returns p with
\* squared distance |q - p|^2, without aborting.  (Violated: the cell width
\* is 0, the query offset saturates and an Offset3 addition overflows.)
C6_SinglePointIndex ==
    (Called /\ Len(point_objs) = 1) =>
        LET c == Unwrap(call) IN
        /\ c.outcome = "returned"
        /\ IsSome(c.result)
        /\ Unwrap(c.result).point_object_index = 0
        /\ Unwrap(c.result).distance2_to_query = dist2(c.query, point_objs[1])

\* C8: every index built from at least one point has cell_width > 0.
\* (Violated: points that share one position give a bounding box of width 0.)
C8_CellWidthPositive ==
    (pc = "built" /\ Len(point_objs) >= 1) => FGt(cell_width, FromInt(0))

\* The candidate of the query cell for the recorded call (when the query
\* cell exists and holds a point), its squared wall distance as the code
\* computes it, compared with its squared distance to the query.
QueryCellOffset == self_point_into_offset(Unwrap(call).query)
InNonEmptyCell == Called /\ Unwrap(call).outcome = "returned"
                         /\ IsSome(QueryCellIndex(QueryCellOffset))
Candidate ==
    Unwrap(nearest(Unwrap(call).query,
                   cell_point_positions[Unwrap(QueryCellIndex(QueryCellOffset))]))
CandidateWall == nearest_wall_dist(Candidate.position, QueryCellOffset)
WallVsCandidate ==
    FCmp(FMul(CandidateWall, CandidateWall), FromInt(Candidate.distance2_to_query))

\* The recorded call returned the candidate of the query cell.
ReturnedCandidate ==
    /\ Unwrap(call).stage = "query_cell"
    /\ Unwrap(Unwrap(call).result).point_object_index = Candidate.point_object_index
    /\ Unwrap(Unwrap(call).result).distance2_to_query = Candidate.distance2_to_query

\* C9 as stated: when the query cell holds a point and its nearest point c
\* has dist_to_wall^2 >= the squared distance from the query to c, c is
\* returned without scanning the neighbouring cells, and the neighbouring cells
\* are scanned only when dist_to_wall^2 < that squared distance.
C9_PruneWhenWallNotNearer ==
    InNonEmptyCell =>
        /\ WallVsCandidate \in {"gt", "eq"} =>
              (~Unwrap(call).neighbors_scanned /\ ReturnedCandidate)
        /\ Unwrap(call).neighbors_scanned => WallVsCandidate = "lt"

\* C9 as amended: c is returned without scanning the neighbouring cells
\* exactly when dist_to_wall^2 > the squared distance from the query to c; when
\* dist_to_wall^2 <= that squared distance (equality included) the 26
\* neighbouring cells are scanned.
C9_PruneWhenWallFarther ==
    InNonEmptyCell =>
        /\ WallVsCandidate = "gt" =>
              (~Unwrap(call).neighbors_scanned /\ ReturnedCandidate)
        /\ WallVsCandidate \in {"lt", "eq"} => Unwrap(call).neighbors_scanned
        /\ Unwrap(call).neighbors_scanned => WallVsCandidate \in {"lt", "eq"}

\* A call on an index of two cells per axis with points apart, whose
\* candidate was returned on the wall test without a scan of the neighbours.
C9_Witness ==
    /\ InNonEmptyCell
    /\ WallVsCandidate = "gt"
    /\ ~Unwrap(call).neighbors_scanned
    /\ grid_dimensions[1] >= 2
    /\ FGt(cell_width, FromInt(0))

\* a + b on f32
FAdd(a, b) == FSub(a, FSub(FromInt(0), b))

\* The distance from the point to the nearest of the six planes bounding the
\* cell at cell_offset: cell_min[i] = min_position[i] + cell_offset[i] * cell_width,
\* cell_max[i] = cell_min[i] + cell_width.
TrueWallDist(point, cell_offset) ==
    LET off == <<cell_offset.x, cell_offset.y, cell_offset.z>>
        cell_min(i) == FAdd(min_position[i], FMul(I64AsF32(off[i]), cell_width))
        cell_max(i) == FAdd(cell_min(i), cell_width)
        axis(i) == min_f32(FSub(FromInt(point[i]), cell_min(i)),
                           FSub(cell_max(i), FromInt(point[i])))
    IN min_f32(axis(1), min_f32(axis(2), axis(3)))

\* C10: for the candidate of the query cell, nearest_wall_dist is the distance
\* to the nearest bounding plane of its cell.  (Violated: the code leaves out
\* min_position and uses the y coordinate for the far z wall.)
C10_WallDistIsDistanceToCellWall ==
    InNonEmptyCell =>
        FEq(CandidateWall, TrueWallDist(Candidate.position, QueryCellOffset))

\* The offsets inside a grid of the given size.
InRangeOffsets(g) ==
    {Off(x, y, z) : x \in 0..(g[1] - 1), y \in 0..(g[2] - 1), z \in 0..(g[3] - 1)}

\* C7: into_grid_index1 gives Some(x + y*dx + z*dx*dy) exactly for the offsets
\* inside the grid and None for the others; the index is below dx*dy*dz, no
\* other offset inside the grid has it, and from_grid_index1 maps it back to the
\* offset; and for every i < dx*dy*dz, from_grid_index1(i) is inside the grid
\* and into_grid_index1 maps it back to i.
C7_FlatIndexBijection ==
    (pc = "index" /\ call /= None) =>
        LET a == Unwrap(args)
            g == a.grid_size
            r == Unwrap(call)
        IN IF "offset" \in DOMAIN a
           THEN IF a.offset \in InRangeOffsets(g)
                THEN /\ r.index1 = Some(a.offset.x.lo + a.offset.y.lo * g[1]
                                        + a.offset.z.lo * g[1] * g[2])
                     /\ Unwrap(r.index1) < g[1] * g[2] * g[3]
                     /\ from_grid_index1(Unwrap(r.index1), g[1], g[2]) = a.offset
                     /\ \A o \in InRangeOffsets(g) :
                           o /= a.offset => into_grid_index1(o, g) /= r.index1
                ELSE r.index1 = None
           ELSE /\ r.offset \in InRangeOffsets(g)
                /\ r.index1 = Some(a.i)

\* The conversion of an offset inside a grid that is not a cube, with a
\* non-zero component on every axis.
C7_Witness ==
    /\ pc = "index"
    /\ call /= None
    /\ "offset" \in DOMAIN Unwrap(args)
    /\ Unwrap(args).grid_size[1] /= Unwrap(args).grid_size[2]
    /\ Unwrap(args).offset \in InRangeOffsets(Unwrap(args).grid_size)
    /\ Unwrap(args).offset.y.lo > 0
    /\ Unwrap(args).offset.z.lo > 0
    /\ IsSome(Unwrap(call).index1)

\* The table entry i (from 0) yields a point for the recorded call: one of the
\* cells at its offset variations around the query cell exists and holds a point.
ShellNearest(i) ==
    nearest_in_cell_offsets(Unwrap(call).query, QueryCellOffset,
                            offset_variations(spiral_cells[i + 1].offset))
ShellHits == {i \in 1..(Len(spiral_cells) - 1) : IsSome(ShellNearest(i))}
\* The first entry after entry 0 that yields a point, and the last entry
\* scanned once it has: its stop index, or the end of the table.
FirstOf(hits) == CHOOSE i \in hits : \A j \in hits : i <= j
LastAfter(first) ==
    IF spiral_cells[first + 1].stop_cell_index1 < Len(spiral_cells) - 1
    THEN spiral_cells[first + 1].stop_cell_index1
    ELSE Len(spiral_cells) - 1
FirstHit == FirstOf(ShellHits)
LastShell == LastAfter(FirstHit)
\* The recorded call returned, and its query cell stage gave nothing.
ReachedSpiral ==
    Called /\ Unwrap(call).outcome = "returned" /\ Unwrap(call).stage /= "query_cell"

\* C11: the spiral search scans the table entries 1, 2, ... in order, never
\* entry 0.  With i the first entry that yields a point, it scans exactly the
\* entries up to table[i].stop_index that exist (none past the stop index), the
\* stage's result is the nearest of the points those entries yield, and the
\* result of the call comes from this stage.  When no entry yields a point
\* every entry after 0 is scanned, the stage yields nothing and the result
\* comes from the brute force, which runs in no other case.  The spiral search
\* is not run when the query cell stage gave a result.
C11_SpiralStopsAtStopIndex ==
    /\ (Called /\ Unwrap(call).stage = "query_cell") =>
          Unwrap(call).shells_scanned = <<>>
    /\ ReachedSpiral =>
          LET c == Unwrap(call)
              hits == ShellHits
              last == LastAfter(FirstOf(hits))
          IN
          IF hits = {}
          THEN /\ c.shells_scanned = [j \in 1..(Len(spiral_cells) - 1) |-> j]
               /\ c.stage = "brute_force"
          ELSE /\ c.shells_scanned = [j \in 1..last |-> j]
               /\ c.stage = "spiral"
               /\ IsSome(c.result)
               /\ \E j \in hits :
                     /\ j <= last
                     /\ Unwrap(ShellNearest(j)).distance2_to_query
                           = Unwrap(c.result).distance2_to_query
               /\ \A j \in hits :
                     j <= last =>
                        Unwrap(c.result).distance2_to_query
                           <= Unwrap(ShellNearest(j)).distance2_to_query

\* A call whose first point was found at an entry with a later stop index
\* before the end of the table: the entries up to the stop index were scanned
\* and the rest of the table was not.
C11_Witness ==
    /\ ReachedSpiral
    /\ ShellHits /= {}
    /\ FirstHit < LastShell
    /\ LastShell < Len(spiral_cells) - 1
    /\ Len(Unwrap(call).shells_scanned) = LastShell
    /\ FGt(cell_width, FromInt(0))

\* The recorded call returned and the cell of its query is missing (the query
\* lies outside the grid) or holds no point.
NoHomeCell ==
    Called /\ Unwrap(call).outcome = "returned" /\ ~IsSome(QueryCellIndex(QueryCellOffset))
\* The nearest point of the 26 cells around the query cell.
NeighborNearest ==
    nearest_in_cell_offsets(Unwrap(call).query, QueryCellOffset, neighbor_offsets)

\* C12 as stated: when the query's cell is missing or empty the 26 cells
\* around it are scanned before the spiral search, and the nearest point of
\* the existing non-empty ones is taken.
C12_NeighborsScannedOnMiss ==
    NoHomeCell =>
        /\ Unwrap(call).neighbors_scanned
        /\ IsSome(NeighborNearest) =>
              /\ Unwrap(call).shells_scanned = <<>>
              /\ Unwrap(Unwrap(call).result).distance2_to_query
                    = Unwrap(NeighborNearest).distance2_to_query

\* C12 as amended: when the query's cell is missing or empty the query cell
\* stage gives nothing and scans no neighbouring cell; the cascade goes
\* straight to the spiral search, which scans the table from entry 1 (every
\* table of two entries or more has entry 1 scanned), and the result comes
\* from the spiral search or, when that yields nothing, from the brute force.
C12_NoNeighborScanOnMiss ==
    NoHomeCell =>
        /\ ~Unwrap(call).neighbors_scanned
        /\ Unwrap(call).stage \in {"spiral", "brute_force"}
        /\ Len(spiral_cells) >= 2 =>
              /\ Len(Unwrap(call).shells_scanned) >= 1
              /\ Unwrap(call).shells_scanned[1] = 1
        /\ Unwrap(call).stage = "spiral" <=> ShellHits /= {}
        /\ (Unwrap(call).stage = "brute_force" /\ Len(point_objs) > 0) =>
              Unwrap(Unwrap(call).result).distance2_to_query = MinDist2(Unwrap(call).query)

\* A call whose query cell exists and is empty while one of the 26 cells
\* around it holds a point, answered by the brute force under a table with
\* the entry 0 alone.
C12_Witness ==
    /\ NoHomeCell
    /\ IsSome(offset_into_index1(QueryCellOffset))
    /\ IsSome(NeighborNearest)
    /\ Len(spiral_cells) = 1
    /\ Unwrap(call).stage = "brute_force"
    /\ ~Unwrap(call).neighbors_scanned
    /\ FGt(cell_width, FromInt(0))

====
